---- MODULE Spec2Model ----
(***************************************************************************)
(* pg-magicplan: the planner hook that sprinkles OFFSET 0 on the          *)
(* sub-queries of EXISTS sublinks, plans the query after every injection  *)
(* and returns either the pristine plan or the best rewritten plan.       *)
(*                                                                         *)
(* One planning request is modelled: magicplan_planner is cut into its     *)
(* steps (planning the backup, one step per SubLink the mutator reaches,   *)
(* the final choice).  Costs are non-negative integers; the threshold is   *)
(* a rational num/den, so that base_cost / best_cost <= threshold is       *)
(* decided exactly as IEEE double arithmetic decides it for these values   *)
(* (x/0 = +inf, 0/0 = NaN, every comparison with NaN is false).           *)
(***************************************************************************)
EXTENDS Integers, Sequences, FiniteSets, TLC

VARIABLES
    parse,               \* the Query object the caller handed to the hook
    original,            \* ghost: the value of *parse on entry
    magicplan_enabled,   \* GUC magicplan.enabled
    magicplan_threshold, \* GUC magicplan.threshold, [num, den]
    mutator_context,     \* magicplan_mutator_context
    todo,                \* position of the tree walk: SubLinks still to leave
    planner_calls,       \* ghost: every plan real_plan produced, in order
    ret,                 \* value returned by the last find_best_query call
    result,              \* the PlannedStmt the hook returned
    pc                   \* "entry", "mutate", "done"

vars == <<parse, original, magicplan_enabled, magicplan_threshold,
          mutator_context, todo, planner_calls, ret, result, pc>>

----------------------------------------------------------------------------
(* Bounds of the model *)

MaxCost == 1
MaxNesting == 2
MaxThresholdNum == 3
MaxThresholdDen == 2

(* GUC definition of magicplan.threshold *)
ThresholdMin == 0
ThresholdMax == 10000
ThresholdDefault == [num |-> 1, den |-> 1]

ExampleCosts == {40, 100}
Costs == (0 .. MaxCost) \cup ExampleCosts

(* The rationals n/d in lowest terms *)
Thresholds ==
    {t \in [num : 0 .. MaxThresholdNum, den : 1 .. MaxThresholdDen] :
        \A k \in 2 .. t.den : ~(t.num % k = 0 /\ t.den % k = 0)}

----------------------------------------------------------------------------
(* Query tree nodes *)

NULL == [type |-> "NULL"]

OpExpr == [type |-> "OpExpr"]

Const(v) == [type |-> "Const", constvalue |-> v]

Query(quals, limitOffset) ==
    [type |-> "Query", quals |-> quals, limitOffset |-> limitOffset]

SubLink(kind, subselect) ==
    [type |-> "SubLink", subLinkType |-> kind, subselect |-> subselect]

BoolExpr(boolop, args) ==
    [type |-> "BoolExpr", boolop |-> boolop, args |-> args]

LimitOffsets == {NULL, Const(1)}

RECURSIVE SubQueries(_)
SubQueries(d) ==
    LET flat == {Query(OpExpr, lo) : lo \in LimitOffsets}
    IN  IF d = 0 THEN flat
        ELSE flat \cup
             {Query(BoolExpr("AND_EXPR",
                             <<OpExpr, SubLink("EXISTS_SUBLINK", s)>>), lo) :
                 s \in SubQueries(d - 1), lo \in LimitOffsets}

TopQuals ==
    LET deep == SubQueries(MaxNesting - 1)
        flat == SubQueries(0)
    IN  {NULL, OpExpr}
        \cup {SubLink("EXISTS_SUBLINK", s) : s \in deep}
        \cup {BoolExpr("AND_EXPR", <<OpExpr, SubLink("EXISTS_SUBLINK", s)>>) :
                 s \in deep}
        \cup {BoolExpr("OR_EXPR", <<OpExpr, SubLink("EXISTS_SUBLINK", s)>>) :
                 s \in deep}
        \cup {BoolExpr("AND_EXPR", <<SubLink("EXISTS_SUBLINK", s),
                                     SubLink("EXISTS_SUBLINK", f)>>) :
                 s \in deep, f \in flat}
        \cup {BoolExpr("AND_EXPR", <<OpExpr, SubLink("ANY_SUBLINK", s)>>) :
                 s \in deep}

Queries == {Query(q, NULL) : q \in TopQuals}

----------------------------------------------------------------------------
(* Tree access by path.  A path step is the index of the child: 1 for the *)
(* quals of a Query and for the subselect of a SubLink, i for the i-th    *)
(* argument of a BoolExpr.                                                 *)

RECURSIVE NodeAt(_, _)
NodeAt(node, path) ==
    IF path = <<>> THEN node
    ELSE CASE node.type = "Query" -> NodeAt(node.quals, Tail(path))
           [] node.type = "SubLink" -> NodeAt(node.subselect, Tail(path))
           [] node.type = "BoolExpr" -> NodeAt(node.args[Head(path)], Tail(path))

(* makeConst(INT8OID, -1, InvalidOid, sizeof(int64), Int64GetDatum(0), ...) *)
makeConst == Const(0)

(* Faulty variant: the write lands on a copy of the SubLink and is lost.   *)
SetLimitOffsetAt_on_copy(node, path, value) == node

(* newquery->limitOffset = makeConst(...); sublink->subselect = newquery:  *)
(* the subselect of the SubLink at path is written in place, so the write  *)
(* is seen through every tree that reaches this SubLink.                   *)
RECURSIVE SetLimitOffsetAt(_, _, _)
SetLimitOffsetAt(node, path, value) ==
    IF path = <<>>
    THEN [node EXCEPT !.subselect.limitOffset = value]
    ELSE CASE node.type = "Query" ->
                [node EXCEPT !.quals = SetLimitOffsetAt(node.quals, Tail(path), value)]
           [] node.type = "SubLink" ->
                [node EXCEPT !.subselect =
                    SetLimitOffsetAt(node.subselect, Tail(path), value)]
           [] node.type = "BoolExpr" ->
                [node EXCEPT !.args[Head(path)] =
                    SetLimitOffsetAt(node.args[Head(path)], Tail(path), value)]

----------------------------------------------------------------------------
(* magicplan_mutator: the order in which the walk reaches line 166 for the *)
(* SubLinks of the tree.  A Query is walked through query_tree_mutator, an *)
(* EXISTS SubLink first walks its subselect and is then left; any other    *)
(* SubLink is returned as is, without walking its subselect; every other   *)
(* node is walked by expression_tree_mutator, children left to right.      *)

(* Faulty variant: the limitOffset of a SubLink is tested and set before   *)
(* its subselect is walked.                                                *)
RECURSIVE magicplan_mutator_preorder(_, _)
RECURSIVE preorder_list(_, _, _)
magicplan_mutator_preorder(node, path) ==
    CASE node.type = "Query" ->
            magicplan_mutator_preorder(node.quals, Append(path, 1))
      [] node.type = "SubLink" ->
            IF node.subLinkType = "EXISTS_SUBLINK" /\ node.subselect.type = "Query"
            THEN <<path>> \o
                 magicplan_mutator_preorder(node.subselect.quals, path \o <<1, 1>>)
            ELSE <<>>
      [] node.type = "BoolExpr" -> preorder_list(node.args, path, 1)
      [] OTHER -> <<>>

preorder_list(args, path, i) ==
    IF i > Len(args) THEN <<>>
    ELSE magicplan_mutator_preorder(args[i], Append(path, i))
         \o preorder_list(args, path, i + 1)

RECURSIVE magicplan_mutator(_, _)
RECURSIVE expression_tree_mutator_list(_, _, _)
magicplan_mutator(node, path) ==
    CASE node.type = "Query" ->
            magicplan_mutator(node.quals, Append(path, 1))
      [] node.type = "SubLink" ->
            IF node.subLinkType = "EXISTS_SUBLINK" /\ node.subselect.type = "Query"
            THEN magicplan_mutator(node.subselect.quals, path \o <<1, 1>>)
                 \o <<path>>
            ELSE <<>>
      [] node.type = "BoolExpr" -> expression_tree_mutator_list(node.args, path, 1)
      [] OTHER -> <<>>

expression_tree_mutator_list(args, path, i) ==
    IF i > Len(args) THEN <<>>
    ELSE magicplan_mutator(args[i], Append(path, i))
         \o expression_tree_mutator_list(args, path, i + 1)

----------------------------------------------------------------------------
(* real_plan: the optimizer is a black box; the plan records the tree that *)
(* was planned, the cost the optimizer gave it and which call made it.     *)

real_plan(current_query, total_cost) ==
    [type |-> "PlannedStmt", id |-> Len(planner_calls) + 1,
     query |-> current_query, total_cost |-> total_cost]

(* Faulty variant: the strict comparison of the earlier revisions.         *)
candidate_wins_strict(best_plan, candidate_plan) ==
    best_plan = NULL \/ candidate_plan.total_cost < best_plan.total_cost

(* find_best_query, line 120: does the candidate plan replace best_plan ?  *)
candidate_wins(best_plan, candidate_plan) ==
    best_plan = NULL \/ candidate_plan.total_cost <= best_plan.total_cost

(* find_best_query: the context after the call.  current_query is set to   *)
(* a copy of the candidate for the call of real_plan and then restored.    *)
find_best_query(context, candidate_plan) ==
    IF candidate_wins(context.best_plan, candidate_plan)
    THEN [context EXCEPT !.best_plan = candidate_plan, !.best_query = "parse"]
    ELSE context

(* Faulty variant: < in place of <=.                                       *)
keep_pristine_strict(base_cost, best_cost, threshold) ==
    IF best_cost = 0 THEN FALSE
    ELSE base_cost * threshold.den < threshold.num * best_cost

(* Faulty variant: the comparison the wrong way round.                     *)
keep_pristine_inverted(base_cost, best_cost, threshold) ==
    IF best_cost = 0 THEN FALSE
    ELSE base_cost * threshold.den >= threshold.num * best_cost

(* magicplan_planner, line 227: (base_cost / best_cost) <= threshold in    *)
(* double arithmetic.  best_cost = 0 gives +inf (base_cost > 0) or NaN     *)
(* (base_cost = 0), and neither is <= a threshold of [0, 10000].           *)
keep_pristine(base_cost, best_cost, threshold) ==
    IF best_cost = 0 THEN FALSE
    ELSE base_cost * threshold.den <= threshold.num * best_cost

(* Faulty variant: the best plan is returned whatever the threshold.       *)
choose_plan_no_threshold(context, threshold) ==
    IF context.best_plan = NULL THEN context.base_plan ELSE context.best_plan

(* magicplan_planner, lines 220-236: the plan returned after the walk.     *)
choose_plan(context, threshold) ==
    IF context.best_plan = NULL THEN context.base_plan
    ELSE IF keep_pristine(context.base_plan.total_cost,
                          context.best_plan.total_cost, threshold)
         THEN context.base_plan
         ELSE context.best_plan

(* Faulty variant: magicplan_enabled is not looked at.                     *)
bypass_never(enabled) == FALSE

(* magicplan_planner, line 209: if (!magicplan_enabled) return base_plan   *)
bypass(enabled) == ~enabled

----------------------------------------------------------------------------
(* The state machine of one planning request *)

(* The GUC accepts a real of [0.0, 10000.0]. *)
guc_accepts(t) ==
    /\ t.num >= ThresholdMin * t.den
    /\ t.num <= ThresholdMax * t.den

Init ==
    /\ parse \in Queries
    /\ original = parse
    /\ magicplan_enabled \in BOOLEAN
    /\ magicplan_threshold \in {t \in Thresholds : guc_accepts(t)}
    /\ mutator_context = NULL
    /\ todo = <<>>
    /\ planner_calls = <<>>
    /\ ret = NULL
    /\ result = NULL
    /\ pc = "entry"

(* magicplan_planner, lines 192-210: copy the query, fill the context,     *)
(* plan the backup, return it when magicplan is disabled.                  *)
PlanBase ==
    /\ pc = "entry"
    /\ \E total_cost \in Costs :
        LET backup == parse
            base_plan == real_plan(backup, total_cost)
        IN  /\ mutator_context' =
                  [type |-> "magicplan_mutator_context",
                   base_query |-> backup, best_query |-> "parse",
                   base_plan |-> base_plan, best_plan |-> NULL,
                   current_query |-> backup]
            /\ planner_calls' = Append(planner_calls, base_plan)
            /\ IF bypass(magicplan_enabled)
               THEN /\ result' = base_plan
                    /\ pc' = "done"
                    /\ todo' = <<>>
               ELSE /\ result' = result
                    /\ pc' = "mutate"
                    /\ todo' = magicplan_mutator(parse, <<>>)
    /\ UNCHANGED <<parse, original, magicplan_enabled, magicplan_threshold, ret>>

(* magicplan_mutator, lines 163-178, limitOffset == NULL: inject OFFSET 0   *)
(* into the subselect and plan context->best_query, which is parse.        *)
MutatorInject ==
    /\ pc = "mutate"
    /\ todo # <<>>
    /\ NodeAt(parse, Head(todo)).subselect.limitOffset = NULL
    /\ \E total_cost \in Costs :
        LET mutated == SetLimitOffsetAt(parse, Head(todo), makeConst)
            candidate_plan == real_plan(mutated, total_cost)
        IN  /\ parse' = mutated
            /\ planner_calls' = Append(planner_calls, candidate_plan)
            /\ ret' = candidate_wins(mutator_context.best_plan, candidate_plan)
            /\ mutator_context' = find_best_query(mutator_context, candidate_plan)
    /\ todo' = Tail(todo)
    /\ UNCHANGED <<original, magicplan_enabled, magicplan_threshold, result, pc>>

(* magicplan_mutator, lines 163-180, limitOffset != NULL: nothing to do.   *)
MutatorSkip ==
    /\ pc = "mutate"
    /\ todo # <<>>
    /\ NodeAt(parse, Head(todo)).subselect.limitOffset # NULL
    /\ todo' = Tail(todo)
    /\ UNCHANGED <<parse, original, magicplan_enabled, magicplan_threshold,
                   mutator_context, planner_calls, ret, result, pc>>

(* magicplan_planner, lines 215-236: the walk is over, choose the plan.    *)
ChoosePlan ==
    /\ pc = "mutate"
    /\ todo = <<>>
    /\ mutator_context' =
          [mutator_context EXCEPT !.current_query = mutator_context.base_query]
    /\ result' = choose_plan(mutator_context, magicplan_threshold)
    /\ pc' = "done"
    /\ UNCHANGED <<parse, original, magicplan_enabled, magicplan_threshold,
                   todo, planner_calls, ret>>

Next == PlanBase \/ MutatorInject \/ MutatorSkip \/ ChoosePlan

Spec == Init /\ [][Next]_vars

----------------------------------------------------------------------------
(* Vocabulary of the properties *)

Done == pc = "done"

BasePlan == planner_calls[1]

Evaluations == Len(planner_calls) - 1

(* a / b <= t for non-negative integers a, b and a rational t; a / 0 is    *)
(* +inf or NaN and is not <= t.                                            *)
RatioAtMost(a, b, t) == b > 0 /\ a * t.den <= t.num * b

ThresholdAtLeast(t, u) == t.num * u.den >= u.num * t.den

ExistsPaths ==
    LET walk == magicplan_mutator(original, <<>>)
    IN  {walk[i] : i \in 1 .. Len(walk)}

Marked(tree, p) == NodeAt(tree, p).subselect.limitOffset # NULL

EligiblePaths == {p \in ExistsPaths : ~Marked(original, p)}

TopLevelAnd(q) == q.quals.type = "BoolExpr" /\ q.quals.boolop = "AND_EXPR"

IsProperPrefix(p, q) == Len(p) < Len(q) /\ SubSeq(q, 1, Len(p)) = p

(* q is left before p by a walk that goes left to right and leaves a       *)
(* SubLink after the SubLinks nested in it.                                *)
Before(q, p) ==
    \/ IsProperPrefix(p, q)
    \/ \E i \in 1 .. Len(q) :
          /\ i <= Len(p)
          /\ SubSeq(q, 1, i - 1) = SubSeq(p, 1, i - 1)
          /\ q[i] < p[i]

(* The tree with OFFSET 0 on every sub-query of an EXISTS SubLink that has *)
(* no limitOffset, SubLinks below a non-EXISTS SubLink excepted.           *)
RECURSIVE WithOffsetZero(_)
WithOffsetZero(node) ==
    CASE node.type = "Query" -> [node EXCEPT !.quals = WithOffsetZero(node.quals)]
      [] node.type = "BoolExpr" ->
            [node EXCEPT !.args = [i \in 1 .. Len(node.args) |->
                                      WithOffsetZero(node.args[i])]]
      [] node.type = "SubLink" ->
            IF node.subLinkType # "EXISTS_SUBLINK" THEN node
            ELSE LET sub == WithOffsetZero(node.subselect)
                 IN  [node EXCEPT !.subselect =
                         IF sub.limitOffset = NULL
                         THEN [sub EXCEPT !.limitOffset = Const(0)]
                         ELSE sub]
      [] OTHER -> node

----------------------------------------------------------------------------
\* C1, as stated: for every threshold the GUC accepts, the plan returned
\* costs no more than the base plan.
C1_NonRegressionAnyThreshold ==
    Done => result.total_cost <= BasePlan.total_cost

\* C1, amended: for every threshold >= 1.0 the plan returned costs no more
\* than the base plan.
C1_NonRegression ==
    (Done /\ ThresholdAtLeast(magicplan_threshold, ThresholdDefault))
        => result.total_cost <= BasePlan.total_cost

C1_Witness ==
    /\ Done
    /\ magicplan_enabled
    /\ ThresholdAtLeast(magicplan_threshold, ThresholdDefault)
    /\ Evaluations >= 2
    /\ result = mutator_context.best_plan
    /\ result.total_cost < BasePlan.total_cost

\* C2: with magicplan enabled, no evaluation returns the base plan; after at
\* least one evaluation the base plan is returned when base_cost / best_cost
\* <= threshold and the best plan otherwise; 100 against 40 is rewritten at
\* threshold 1.0 and pristine at threshold 3.0.
C2_DecisionRule ==
    (Done /\ magicplan_enabled) =>
        IF Evaluations = 0
        THEN result = BasePlan
        ELSE LET best == mutator_context.best_plan
                 base_cost == BasePlan.total_cost
                 t == magicplan_threshold
             IN  /\ best \in {planner_calls[i] : i \in 2 .. Len(planner_calls)}
                 /\ RatioAtMost(base_cost, best.total_cost, t) => result = BasePlan
                 /\ ~RatioAtMost(base_cost, best.total_cost, t) => result = best
                 /\ (base_cost = 100 /\ best.total_cost = 40 /\ t.num = t.den)
                        => result = best
                 /\ (base_cost = 100 /\ best.total_cost = 40 /\ t.num = 3 * t.den)
                        => result = BasePlan

C2_Witness ==
    /\ Done
    /\ magicplan_enabled
    /\ Evaluations >= 1
    /\ BasePlan.total_cost = 100
    /\ mutator_context.best_plan.total_cost = 40
    /\ magicplan_threshold.num = 3 * magicplan_threshold.den
    /\ result = BasePlan

\* C3: with magicplan disabled the hook returns the plan of the original
\* query, calls the optimizer once and sets no limitOffset.
C3_DisabledPassThrough ==
    (Done /\ ~magicplan_enabled) =>
        /\ result = BasePlan
        /\ result.query = original
        /\ Len(planner_calls) = 1
        /\ parse = original

C3_Witness ==
    /\ Done
    /\ ~magicplan_enabled
    /\ TopLevelAnd(original)
    /\ Cardinality(EligiblePaths) >= 2
    /\ result.query = original

\* C4: with magicplan enabled, a query whose top-level filter is absent or
\* is not an AND is planned once, as it is, and gets no limitOffset.
C4_ShapePassThrough ==
    (Done /\ magicplan_enabled /\ ~TopLevelAnd(original)) =>
        /\ result = BasePlan
        /\ result.query = original
        /\ Len(planner_calls) = 1
        /\ parse = original

C6_ThresholdMonotonicity ==
    (Done /\ magicplan_enabled /\ result = BasePlan) =>
        \A t \in Thresholds :
            (guc_accepts(t) /\ ThresholdAtLeast(t, magicplan_threshold))
                => choose_plan(mutator_context, t) = BasePlan

C6_Witness ==
    /\ Done
    /\ magicplan_enabled
    /\ Evaluations >= 1
    /\ result = BasePlan
    /\ \E t \in Thresholds :
          /\ ~ThresholdAtLeast(t, magicplan_threshold)
          /\ choose_plan(mutator_context, t) = mutator_context.best_plan
    /\ \E t \in Thresholds :
          /\ ~ThresholdAtLeast(magicplan_threshold, t)
          /\ choose_plan(mutator_context, t) = BasePlan

\* C7: a base plan of cost zero is the plan returned, whatever the best cost
\* and the threshold.
C7_ZeroBaseCost ==
    (Done /\ BasePlan.total_cost = 0) => result = BasePlan

\* C8: with magicplan enabled and the default threshold, the plan returned
\* has the lowest cost of all the plans of the request, and it is a
\* rewritten plan exactly when a candidate is strictly cheaper than the base
\* plan.
C8_BestPlanExecuted ==
    (Done /\ magicplan_enabled
          /\ ThresholdAtLeast(magicplan_threshold, ThresholdDefault)
          /\ ThresholdAtLeast(ThresholdDefault, magicplan_threshold)) =>
        /\ \A i \in 1 .. Len(planner_calls) :
              result.total_cost <= planner_calls[i].total_cost
        /\ result # BasePlan <=>
              \E i \in 2 .. Len(planner_calls) :
                  planner_calls[i].total_cost < BasePlan.total_cost

(* best_plan is the last of the candidates of minimum cost *)
LastOfMinimum ==
    Evaluations >= 1 =>
        LET cands == 2 .. Len(planner_calls)
            cheapest == {i \in cands : \A j \in cands :
                            planner_calls[i].total_cost <= planner_calls[j].total_cost}
            last == CHOOSE i \in cheapest : \A j \in cheapest : j <= i
        IN  mutator_context.best_plan = planner_calls[last]

\* C9: an evaluation replaces best_plan and returns true exactly when
\* best_plan is absent or the candidate costs no more than it, and otherwise
\* leaves the context unchanged and returns false; hence best_plan is the
\* plan of the last evaluated candidate among those of minimum cost.
C9_EvaluatorTieBreak ==
    [][ /\ (pc = "mutate" /\ Len(planner_calls') = Len(planner_calls) + 1) =>
            LET cand == planner_calls'[Len(planner_calls')]
                old == mutator_context.best_plan
                wins == old = NULL \/ cand.total_cost <= old.total_cost
            IN  /\ ret' = wins
                /\ wins => mutator_context' =
                               [mutator_context EXCEPT !.best_plan = cand]
                /\ ~wins => mutator_context' = mutator_context
        /\ LastOfMinimum' ]_vars

C9_Witness ==
    /\ pc = "mutate"
    /\ Evaluations = 3
    /\ planner_calls[2].total_cost = planner_calls[3].total_cost
    /\ planner_calls[4].total_cost > planner_calls[3].total_cost
    /\ ret = FALSE
    /\ mutator_context.best_plan = planner_calls[3]

(* The tree without the limitOffset of the sub-queries of its SubLinks.    *)
RECURSIVE Skeleton(_)
Skeleton(node) ==
    CASE node.type = "Query" -> [node EXCEPT !.quals = Skeleton(node.quals)]
      [] node.type = "BoolExpr" ->
            [node EXCEPT !.args = [i \in 1 .. Len(node.args) |->
                                      Skeleton(node.args[i])]]
      [] node.type = "SubLink" ->
            [node EXCEPT !.subselect =
                [Skeleton(node.subselect) EXCEPT !.limitOffset = NULL]]
      [] OTHER -> node

(* The EXISTS sub-queries that have gained a limitOffset in the k-th        *)
(* candidate.                                                              *)
NewMarks(k) ==
    {p \in EligiblePaths : Marked(planner_calls[k + 1].query, p)}

CandidatesCumulative ==
    LET all == ExistsPaths
        eligible == {p \in all : ~Marked(original, p)}
    IN  \A k \in 1 .. Evaluations :
            LET candidate == planner_calls[k + 1].query
                marks == {p \in eligible : Marked(candidate, p)}
            IN  /\ Cardinality(marks) = k
                /\ \A p \in marks :
                      \A q \in eligible : Before(q, p) => q \in marks
                /\ \A p \in all \ eligible :
                      NodeAt(candidate, p).subselect.limitOffset =
                          NodeAt(original, p).subselect.limitOffset
                /\ \A p \in marks :
                      NodeAt(candidate, p).subselect.limitOffset = Const(0)
                /\ Skeleton(candidate) = Skeleton(original)

\* C10: a nested EXISTS sub-query gets its OFFSET 0 and is evaluated before
\* the enclosing one gets its own; every injection is followed at once by
\* the planning of the whole query; no limitOffset is removed; the k-th
\* candidate is the whole query with OFFSET 0 on the first k eligible EXISTS
\* sub-queries of the walk.
C10_CumulativeCandidates ==
    /\ []CandidatesCumulative
    /\ [][ /\ parse' # parse =>
                /\ Len(planner_calls') = Len(planner_calls) + 1
                /\ planner_calls'[Len(planner_calls')].query = parse'
                /\ LET all == ExistsPaths
                   IN  /\ \A p \in all : Marked(parse, p) => Marked(parse', p)
                       /\ Cardinality({p \in all : Marked(parse', p)}) =
                             Cardinality({p \in all : Marked(parse, p)}) + 1
           /\ Len(planner_calls') > Len(planner_calls) =>
                (pc = "entry" \/ parse' # parse) ]_vars

C10_Witness ==
    /\ Evaluations >= 2
    /\ \E p \in EligiblePaths, q \in EligiblePaths :
          /\ IsProperPrefix(p, q)
          /\ q \in NewMarks(1)
          /\ p \notin NewMarks(1)
          /\ p \in NewMarks(2)

(* context->best_query is a pointer: find_best_query stores the candidate  *)
(* pointer it was given, which is always parse, so the tree it denotes is   *)
(* the caller's query as it is now.                                        *)
best_query_tree ==
    IF mutator_context.best_query = "parse" THEN parse ELSE NULL

\* C11: whenever best_plan is present, it is the plan of the tree that
\* best_query denotes: the two carry OFFSET 0 on the same EXISTS
\* sub-queries.
C11_BestStateConsistent ==
    (pc # "entry" /\ mutator_context.best_plan # NULL) =>
        /\ mutator_context.best_plan.query = best_query_tree
        /\ \A p \in ExistsPaths :
              Marked(mutator_context.best_plan.query, p) <=>
                  Marked(best_query_tree, p)

(* The number of EXISTS SubLinks of the tree whose sub-query has no         *)
(* limitOffset, wherever they are in the tree.                             *)
RECURSIVE UnmarkedExists(_)
RECURSIVE UnmarkedExistsList(_, _)
UnmarkedExists(node) ==
    CASE node.type = "Query" -> UnmarkedExists(node.quals)
      [] node.type = "BoolExpr" -> UnmarkedExistsList(node.args, 1)
      [] node.type = "SubLink" ->
            UnmarkedExists(node.subselect)
            + (IF node.subLinkType = "EXISTS_SUBLINK"
                  /\ node.subselect.limitOffset = NULL
               THEN 1 ELSE 0)
      [] OTHER -> 0

UnmarkedExistsList(args, i) ==
    IF i > Len(args) THEN 0
    ELSE UnmarkedExists(args[i]) + UnmarkedExistsList(args, i + 1)

\* C12: with magicplan enabled a request makes 1 + N optimizer calls, N
\* being the number of EXISTS sub-queries without limitOffset on entry; the
\* base plan is made once, first, from the query as it was on entry, and an
\* EXISTS sub-query that had a limitOffset causes no call and keeps it.
C12_CallCountAndOrder ==
    (Done /\ magicplan_enabled) =>
        /\ Len(planner_calls) = 1 + UnmarkedExists(original)
        /\ planner_calls[1].query = original
        /\ mutator_context.base_plan = planner_calls[1]
        /\ \A i \in 2 .. Len(planner_calls) :
              /\ planner_calls[i].query # original
              /\ planner_calls[i] # mutator_context.base_plan
        /\ \A p \in ExistsPaths \ EligiblePaths :
              NodeAt(parse, p).subselect.limitOffset =
                  NodeAt(original, p).subselect.limitOffset

====
